---- MODULE Spec2Model ----
(***************************************************************************)
(* Model of the redpanda cluster reconciliation controller                 *)
(* (src/go/k8s/controllers/redpanda/cluster_controller.go).                *)
(*                                                                         *)
(* The control plane is the store (apiCluster, apiService, apiConfigMap,   *)
(* apiStatefulSet, apiPods).  One Reconcile invocation for the single key  *)
(* Name/Namespace is in flight at a time; every remote call of Reconcile   *)
(* is one action, and the steps of other writers (the user, the node set's *)
(* own controller, deletions) interleave between them.                     *)
(*                                                                         *)
(* Modelling decisions:                                                    *)
(*  - Spec.Replicas of the Cluster and of the StatefulSet are *int32; a    *)
(*    pointer is modelled with its address, so that the comparison of      *)
(*    line 160 is the comparison of addresses Go makes.  The Cluster's     *)
(*    replica count is always set (a non-nil pointer).                     *)
(*  - a Get reads the store itself (no stale cache), and a write fails     *)
(*    with a conflict when the object was written by someone else after    *)
(*    Reconcile fetched it (the stale flag of the local copy).             *)
(*  - budget bounds how often other writers act or remote calls fail in a  *)
(*    behaviour; clean and nCreated are history variables.                 *)
(***************************************************************************)
EXTENDS Integers, Sequences, FiniteSets, TLC

(* ---------------------------- bounds ----------------------------------- *)
MaxReplicas == 2
MaxPods == 2
\* how many times other writers act or a remote call fails in one behaviour
MaxDisturb == 3
\* the same, in the behaviours checked for progress
MaxLiveDisturb == 2

(* ---------------------------- constants -------------------------------- *)
Name == "cluster-a"
Namespace == "default"
baseSuffix == "-base"
BootstrapReplicas == 1

DesiredReplicas == 0..MaxReplicas
ReadyCounts == 0..MaxReplicas
\* a pod of the node set is named <cluster name>-<ordinal>
PodName(i) == Name \o "-" \o ToString(i)

\* the pods of ordinals 0..n-1, by ascending and by descending ordinal
Ascending(n) == [i \in 1..n |-> PodName(i - 1)]
Descending(n) == [i \in 1..n |-> PodName(n - i)]

\* the pod lists the control plane may return: the node set's first n pods,
\* in either order
PodLists == { Ascending(n) : n \in 0..MaxPods } \cup { Descending(n) : n \in 0..MaxPods }

\* errors of a remote call other than not-found / conflict
RemoteErrors == {"Timeout", "Forbidden"}

Kinds == {"Service", "ConfigMap", "StatefulSet"}

\* the kinds registered in a complete scheme
Scheme == {"Cluster", "Service", "ConfigMap", "StatefulSet", "Pod"}

(* ---------------------------- Go values -------------------------------- *)
\* *int32: a pointer is the address of the variable it points to and the
\* value stored there; the nil pointer has address "nil".
NilPtr == [addr |-> "nil", val |-> 0]
NewInt32(a, v) == [addr |-> a, val |-> v]

\* p == q on two *int32 values compares the addresses, not the pointees
PtrEqual(p, q) == p.addr = q.addr

\* []string: a slice is nil or not, and has elements
NilSlice == [isnil |-> TRUE, elems |-> <<>>]
MakeSlice(s) == [isnil |-> FALSE, elems |-> s]

\* a comparison of the lengths only
DeepEqualSlice_LenOnly(a, b) == a.isnil = b.isnil /\ Len(a.elems) = Len(b.elems)

\* reflect.DeepEqual on []string: a nil slice and an empty slice differ
DeepEqualSlice(a, b) == a.isnil = b.isnil /\ a.elems = b.elems

\* reflect.DeepEqual on two int32 values
DeepEqualInt(a, b) == a = b

\* the error handed back as it is
IgnoreNotFound_Keep(e) == e

\* client.IgnoreNotFound
IgnoreNotFound(e) == IF e = "NotFound" THEN "OK" ELSE e

\* any error taken for not-found
IsNotFound_AnyError(e) == e # "OK"

\* errors.IsNotFound
IsNotFound(e) == e = "NotFound"

Min(a, b) == IF a < b THEN a ELSE b

VARIABLES
  apiCluster,       \* the stored Cluster resource (spec and status)
  apiService,       \* the stored headless Service
  apiConfigMap,     \* the stored base ConfigMap
  apiStatefulSet,   \* the stored StatefulSet
  apiPods,          \* the pods the List call returns, in list order
  pc,               \* position of the Reconcile invocation
  redpandaCluster,  \* Reconcile's local copy of the Cluster
  sts,              \* Reconcile's local StatefulSet variable
  observedNodes,    \* Reconcile's local slice of pod names
  result,           \* the error Reconcile returned ("OK" for nil)
  calls,            \* remote calls issued by the current invocation, in order
  budget,           \* how many more disturbances (other writers, failures) may come
  clean,            \* history: successful invocations in a row with no disturbance
  nCreated,         \* history: successful creates per kind since its deletion
  queued,           \* the framework's work queue holds the key
  prev,             \* history: budget left when a status write of the previous
                    \* invocation failed with both status fields behind, else -1
  scheme,           \* r.Scheme: the kinds registered with the reconciler
  twin,             \* the first of two runs compared with each other
  synth,            \* a configuration being synthesized and applied on a pod
  multi             \* two Clusters, their children and their invocations

vars == <<apiCluster, apiService, apiConfigMap, apiStatefulSet, apiPods, pc,
          redpandaCluster, sts, observedNodes, result, calls, budget,
          clean, nCreated, queued, prev, scheme, twin, synth, multi>>

\* what no step of Reconcile and no other writer changes
aside == <<scheme, twin, synth, multi>>

store == <<apiCluster, apiService, apiConfigMap, apiStatefulSet, apiPods>>
locals == <<redpandaCluster, sts, observedNodes>>

(* ---------------------------- objects ---------------------------------- *)
AbsentChild == [exists |-> FALSE, name |-> "", namespace |-> "", owner |-> ""]
AbsentStatefulSet ==
  [exists |-> FALSE, name |-> "", namespace |-> "", owner |-> "",
   replicas |-> 0, ready |-> 0]

\* var redpandaCluster redpandav1alpha1.Cluster: the zero value
ZeroCluster ==
  [name |-> "", namespace |-> "", replicas |-> NilPtr,
   nodes |-> NilSlice, statusReplicas |-> 0, stale |-> FALSE]

\* var sts appsv1.StatefulSet: the zero value
ZeroStatefulSet ==
  [name |-> "", namespace |-> "", replicas |-> NilPtr, ready |-> 0,
   stale |-> FALSE]

\* decoding the stored node list: an absent or empty list decodes to nil
DecodeNodes(s) == IF s = <<>> THEN NilSlice ELSE MakeSlice(s)

\* r.Get decodes the stored Cluster into fresh memory
DecodeCluster(c) ==
  [name |-> Name, namespace |-> Namespace,
   replicas |-> NewInt32("redpandaCluster.Spec.Replicas", c.replicas),
   nodes |-> DecodeNodes(c.nodes), statusReplicas |-> c.ready,
   stale |-> FALSE]

\* r.Get decodes the stored StatefulSet into fresh memory
DecodeStatefulSet(s) ==
  [name |-> s.name, namespace |-> s.namespace,
   replicas |-> NewInt32("sts.Spec.Replicas", s.replicas),
   ready |-> s.ready, stale |-> FALSE]

Call(op, kind, name, res) == [op |-> op, kind |-> kind, name |-> name, res |-> res]

\* outcomes a remote call can have besides what the store decides
Failures == IF budget > 0 THEN RemoteErrors ELSE {}

\* a failed remote call is a disturbance
Spend(e) == budget' = IF e \in RemoteErrors THEN budget - 1 ELSE budget

\* no pair of runs is being compared, nothing is being synthesized
NoTwin == [phase |-> 0]
NoSynth == [phase |-> "none"]
NoMulti == [phase |-> "none"]

InitWith(b) ==
  /\ apiCluster \in { [exists |-> TRUE, replicas |-> n, nodes |-> <<>>, ready |-> 0]
                        : n \in DesiredReplicas }
  /\ apiService = AbsentChild
  /\ apiConfigMap = AbsentChild
  /\ apiStatefulSet = AbsentStatefulSet
  /\ apiPods = <<>>
  /\ pc = "idle"
  /\ redpandaCluster = ZeroCluster
  /\ sts = ZeroStatefulSet
  /\ observedNodes = NilSlice
  /\ result = "none"
  /\ calls = <<>>
  /\ budget = b
  /\ clean = 0
  /\ nCreated = [k \in Kinds |-> 0]
  /\ queued = TRUE
  /\ prev = -1
  /\ scheme = Scheme
  /\ twin = NoTwin
  /\ synth = NoSynth
  /\ multi = NoMulti

\* the reconciler has been constructed, nothing has been created yet
Init == InitWith(MaxDisturb)

(* ---------------------------- Reconcile -------------------------------- *)
\* return ctrl.Result{}, nil where the error was meant
Return_Nil(e) ==
  /\ pc' = "done"
  /\ result' = "OK"
  /\ clean' = IF clean >= 0 THEN Min(clean + 1, 2) ELSE 0

\* return ctrl.Result{}, e
Return(e) ==
  /\ pc' = "done"
  /\ result' = e
  /\ clean' = IF clean >= 0 /\ e = "OK" THEN Min(clean + 1, 2) ELSE 0

\* Reconcile goes on at p, or returns nil when nothing is left to do
Goto(p) ==
  IF p = "return" THEN Return("OK")
  ELSE pc' = p /\ UNCHANGED <<result, clean>>

\* the kinds whose events enqueue the key: For(&Cluster{}) and
\* Owns(&appsv1.StatefulSet{})
Watched == {"Cluster", "StatefulSet"}

\* this step changes what the store holds of kind k
Changed(k) ==
  CASE k = "Cluster" -> apiCluster' # apiCluster
    [] k = "Service" -> apiService' # apiService
    [] k = "ConfigMap" -> apiConfigMap' # apiConfigMap
    [] k = "StatefulSet" -> apiStatefulSet' # apiStatefulSet
    [] k = "Pod" -> apiPods' # apiPods

\* a change to an object of a watched kind puts the key on the work queue
Notify == queued' = (queued \/ \E k \in Watched : Changed(k))

\* the framework invokes Reconcile for the key
StartReconcile ==
  /\ pc = "idle"
  /\ pc' = "getCluster"
  /\ result' = "none"
  /\ UNCHANGED <<store, locals, calls, budget, clean, nCreated>>
  /\ queued' = FALSE
  /\ UNCHANGED <<prev, aside>>

\* r.Get(ctx, req.NamespacedName, &redpandaCluster)
GetCluster ==
  /\ pc = "getCluster"
  /\ \E e \in Failures \cup {IF apiCluster.exists THEN "OK" ELSE "NotFound"} :
       /\ calls' = Append(calls, Call("Get", "Cluster", Name, e))
       /\ Spend(e)
       /\ IF e = "OK"
            THEN /\ redpandaCluster' = DecodeCluster(apiCluster)
                 /\ pc' = "getService"
                 /\ UNCHANGED <<result, clean>>
            ELSE /\ Return(IgnoreNotFound(e))
                 /\ UNCHANGED redpandaCluster
  /\ UNCHANGED <<store, sts, observedNodes, nCreated>>
  /\ Notify
  /\ UNCHANGED <<prev, aside>>

\* the outcome the store gives a Get by name; obj is what it holds of that kind
GetOutcome(obj, name) ==
  IF obj.exists /\ obj.name = name THEN "OK" ELSE "NotFound"

\* the outcome the store gives a Create of new; obj is what it holds of that kind
CreateOutcome(obj, new) ==
  IF obj.exists /\ obj.name = new.name THEN "AlreadyExists" ELSE "OK"

\* the object handed back as it is, with no reference set
SetControllerReference_None(owner, obj) == [err |-> "OK", obj |-> obj]

\* controllerutil.SetControllerReference(owner, obj, scheme)
SetControllerReference(owner, obj) ==
  IF "Cluster" \in scheme
    THEN [err |-> "OK", obj |-> [obj EXCEPT !.owner = owner.name]]
    ELSE [err |-> "NoKindRegistered", obj |-> obj]

\* a Service built under one name for every Cluster
HeadlessService_Fixed(clusterSpec) ==
  [exists |-> TRUE, name |-> Name,
   namespace |-> clusterSpec.namespace, owner |-> ""]

\* the Service createHeadlessService builds
HeadlessService(clusterSpec) ==
  [exists |-> TRUE, name |-> clusterSpec.name,
   namespace |-> clusterSpec.namespace, owner |-> ""]

\* a ConfigMap created under the cluster's name, without the suffix
BootstrapConfigMap_NoSuffix(cluster) ==
  [exists |-> TRUE, name |-> cluster.name,
   namespace |-> cluster.namespace, owner |-> ""]

\* the ConfigMap createBootstrapConfigMap builds
BootstrapConfigMap(cluster) ==
  [exists |-> TRUE, name |-> cluster.name \o baseSuffix,
   namespace |-> cluster.namespace, owner |-> ""]

\* a StatefulSet created with the replica count of the Cluster
BootstrapStatefulSet_Desired(cluster) ==
  [exists |-> TRUE, name |-> cluster.name, namespace |-> cluster.namespace,
   owner |-> "", replicas |-> cluster.replicas.val, ready |-> 0]

\* the StatefulSet createBootstrapStatefulSet builds
BootstrapStatefulSet(cluster) ==
  [exists |-> TRUE, name |-> cluster.name, namespace |-> cluster.namespace,
   owner |-> "", replicas |-> BootstrapReplicas, ready |-> 0]

\* a Service that is found is overwritten with the one built from the Cluster
GetService_Sync ==
  /\ pc = "getService"
  /\ \E e \in Failures \cup {GetOutcome(apiService, redpandaCluster.name)} :
       /\ calls' = Append(calls, Call("Get", "Service", redpandaCluster.name, e))
       /\ Spend(e)
       /\ IF e = "OK"
            THEN /\ apiService' = HeadlessService(redpandaCluster)
                 /\ pc' = "getConfigMap"
                 /\ UNCHANGED <<result, clean>>
          ELSE IF IsNotFound(e)
            THEN pc' = "createService" /\ UNCHANGED <<apiService, result, clean>>
          ELSE Return(e) /\ UNCHANGED apiService
  /\ UNCHANGED <<apiCluster, apiConfigMap, apiStatefulSet, apiPods, locals, nCreated>>
  /\ Notify
  /\ UNCHANGED <<prev, aside>>

\* r.Get(ctx, {redpandaCluster.Name, redpandaCluster.Namespace}, &svc)
GetService ==
  /\ pc = "getService"
  /\ \E e \in Failures \cup {GetOutcome(apiService, redpandaCluster.name)} :
       /\ calls' = Append(calls, Call("Get", "Service", redpandaCluster.name, e))
       /\ Spend(e)
       /\ IF e = "OK" THEN pc' = "getConfigMap" /\ UNCHANGED <<result, clean>>
          ELSE IF IsNotFound(e) THEN pc' = "createService" /\ UNCHANGED <<result, clean>>
          ELSE Return(e)
  /\ UNCHANGED <<store, locals, nCreated>>
  /\ Notify
  /\ UNCHANGED <<prev, aside>>

\* r.createHeadlessService(ctx, &redpandaCluster, r.Scheme)
CreateService ==
  /\ pc = "createService"
  /\ LET ref == SetControllerReference(redpandaCluster, HeadlessService(redpandaCluster)) IN
     IF ref.err # "OK"
       THEN /\ Return(ref.err)
            /\ UNCHANGED <<apiService, calls, nCreated, budget>>
       ELSE \E e \in Failures \cup {CreateOutcome(apiService, ref.obj)} :
              /\ calls' = Append(calls, Call("Create", "Service", ref.obj.name, e))
              /\ Spend(e)
              /\ IF e = "OK"
                   THEN /\ apiService' = ref.obj
                        /\ nCreated' = [nCreated EXCEPT !["Service"] = Min(@ + 1, 2)]
                        /\ pc' = "getConfigMap"
                        /\ UNCHANGED <<result, clean>>
                   ELSE /\ Return(e)
                        /\ UNCHANGED <<apiService, nCreated>>
  /\ UNCHANGED <<apiCluster, apiConfigMap, apiStatefulSet, apiPods, locals>>
  /\ Notify
  /\ UNCHANGED <<prev, aside>>

\* r.Get(ctx, {redpandaCluster.Name + baseSuffix, Namespace}, &baseConfigMap)
GetConfigMap ==
  /\ pc = "getConfigMap"
  /\ \E e \in Failures \cup {GetOutcome(apiConfigMap, redpandaCluster.name \o baseSuffix)} :
       /\ calls' = Append(calls, Call("Get", "ConfigMap", redpandaCluster.name \o baseSuffix, e))
       /\ Spend(e)
       /\ IF e = "OK" THEN pc' = "getStatefulSet" /\ UNCHANGED <<result, clean>>
          ELSE IF IsNotFound(e) THEN pc' = "createConfigMap" /\ UNCHANGED <<result, clean>>
          ELSE Return(e)
  /\ UNCHANGED <<store, locals, nCreated>>
  /\ Notify
  /\ UNCHANGED <<prev, aside>>

\* r.createBootstrapConfigMap(ctx, &redpandaCluster, r.Scheme)
CreateConfigMap ==
  /\ pc = "createConfigMap"
  /\ LET ref == SetControllerReference(redpandaCluster, BootstrapConfigMap(redpandaCluster)) IN
     IF ref.err # "OK"
       THEN /\ Return(ref.err)
            /\ UNCHANGED <<apiConfigMap, calls, nCreated, budget>>
       ELSE \E e \in Failures \cup {CreateOutcome(apiConfigMap, ref.obj)} :
              /\ calls' = Append(calls, Call("Create", "ConfigMap", ref.obj.name, e))
              /\ Spend(e)
              /\ IF e = "OK"
                   THEN /\ apiConfigMap' = ref.obj
                        /\ nCreated' = [nCreated EXCEPT !["ConfigMap"] = Min(@ + 1, 2)]
                        /\ pc' = "getStatefulSet"
                        /\ UNCHANGED <<result, clean>>
                   ELSE /\ Return(e)
                        /\ UNCHANGED <<apiConfigMap, nCreated>>
  /\ UNCHANGED <<apiCluster, apiService, apiStatefulSet, apiPods, locals>>
  /\ Notify
  /\ UNCHANGED <<prev, aside>>

\* the replica count of sts compared with itself
ReplicasDiffer_Self(s, c) == ~PtrEqual(s.replicas, s.replicas)

\* if sts.Spec.Replicas != redpandaCluster.Spec.Replicas
ReplicasDiffer(s, c) == ~PtrEqual(s.replicas, c.replicas)

\* the update decided by the ready count the Cluster's status records
AfterStatefulSet_Reported(s, c) ==
  IF c.statusReplicas # c.replicas.val THEN "updateStatefulSet" ELSE "listPods"

\* where Reconcile goes once its sts variable is settled
AfterStatefulSet(s, c) ==
  IF ReplicasDiffer(s, c) THEN "updateStatefulSet" ELSE "listPods"

\* r.Get(ctx, {redpandaCluster.Name, redpandaCluster.Namespace}, &sts)
GetStatefulSet ==
  /\ pc = "getStatefulSet"
  /\ \E e \in Failures \cup {GetOutcome(apiStatefulSet, redpandaCluster.name)} :
       /\ calls' = Append(calls, Call("Get", "StatefulSet", redpandaCluster.name, e))
       /\ Spend(e)
       /\ IF e = "OK"
            THEN /\ sts' = DecodeStatefulSet(apiStatefulSet)
                 /\ pc' = AfterStatefulSet(sts', redpandaCluster)
                 /\ UNCHANGED <<result, clean>>
          ELSE IF IsNotFound(e)
            THEN pc' = "createStatefulSet" /\ UNCHANGED <<sts, result, clean>>
          ELSE Return(e) /\ UNCHANGED sts
  /\ UNCHANGED <<store, redpandaCluster, observedNodes, nCreated>>
  /\ Notify
  /\ UNCHANGED <<prev, aside>>

\* r.createBootstrapStatefulSet(ctx, &redpandaCluster, r.Scheme, name + baseSuffix);
\* the object it builds and creates is its own ss, Reconcile's sts is not assigned
CreateStatefulSet ==
  /\ pc = "createStatefulSet"
  /\ LET ref == SetControllerReference(redpandaCluster, BootstrapStatefulSet(redpandaCluster)) IN
     IF ref.err # "OK"
       THEN /\ Return(ref.err)
            /\ UNCHANGED <<apiStatefulSet, calls, nCreated, budget>>
       ELSE \E e \in Failures \cup {CreateOutcome(apiStatefulSet, ref.obj)} :
              /\ calls' = Append(calls, Call("Create", "StatefulSet", ref.obj.name, e))
              /\ Spend(e)
              /\ IF e = "OK"
                   THEN /\ apiStatefulSet' = ref.obj
                        /\ nCreated' = [nCreated EXCEPT !["StatefulSet"] = Min(@ + 1, 2)]
                        /\ pc' = AfterStatefulSet(sts, redpandaCluster)
                        /\ UNCHANGED <<result, clean>>
                   ELSE /\ Return(e)
                        /\ UNCHANGED <<apiStatefulSet, nCreated>>
  /\ UNCHANGED <<apiCluster, apiService, apiConfigMap, apiPods, locals>>
  /\ Notify
  /\ UNCHANGED <<prev, aside>>

\* an update the store applies whatever version it was made from
UpdateOutcome_Unversioned(s) ==
  IF s.name = "" THEN "Invalid"
  ELSE IF ~apiStatefulSet.exists \/ apiStatefulSet.name # s.name THEN "NotFound"
  ELSE "OK"

\* the outcome the store gives an Update of the StatefulSet s
UpdateOutcome(s) ==
  IF s.name = "" THEN "Invalid"
  ELSE IF ~apiStatefulSet.exists \/ apiStatefulSet.name # s.name THEN "NotFound"
  ELSE IF s.stale THEN "Conflict"
  ELSE "OK"

\* the assignment left out
SetReplicas_Skip(s, c) == s

\* sts.Spec.Replicas = redpandaCluster.Spec.Replicas
SetReplicas(s, c) == [s EXCEPT !.replicas = c.replicas]

\* sts.Spec.Replicas = redpandaCluster.Spec.Replicas; r.Update(ctx, &sts);
\* a successful Update decodes the stored object back into sts
UpdateStatefulSet ==
  /\ pc = "updateStatefulSet"
  /\ LET s == SetReplicas(sts, redpandaCluster) IN
     \E e \in Failures \cup {UpdateOutcome(s)} :
       /\ calls' = Append(calls, Call("Update", "StatefulSet", s.name, e))
       /\ Spend(e)
       /\ IF e = "OK"
            THEN /\ apiStatefulSet' = [apiStatefulSet EXCEPT !.replicas = s.replicas.val]
                 /\ sts' = DecodeStatefulSet(apiStatefulSet')
                 /\ pc' = "listPods"
                 /\ UNCHANGED <<result, clean>>
            ELSE /\ Return(e)
                 /\ sts' = s
                 /\ UNCHANGED apiStatefulSet
  /\ UNCHANGED <<apiCluster, apiService, apiConfigMap, apiPods, redpandaCluster,
                 observedNodes, nCreated>>
  /\ Notify
  /\ UNCHANGED <<prev, aside>>

\* the ready count is left as it is
AfterNodes_Skip(s, c) == "return"

\* where Reconcile goes after the node status step
AfterNodes(s, c) ==
  IF ~DeepEqualInt(s.ready, c.statusReplicas) THEN "updateStatusReplicas"
  ELSE "return"

\* where Reconcile goes after the pod list
AfterList(nodes, s, c) ==
  IF ~DeepEqualSlice(nodes, c.nodes) THEN "updateStatusNodes"
  ELSE AfterNodes(s, c)

\* r.List(ctx, &observedPods, ...); observedNodes = names of observedPods.Items
ListPods ==
  /\ pc = "listPods"
  /\ \E e \in Failures \cup {"OK"} :
       /\ calls' = Append(calls, Call("List", "Pod", "", e))
       /\ Spend(e)
       /\ IF e = "OK"
            THEN /\ observedNodes' = MakeSlice(apiPods)
                 /\ Goto(AfterList(observedNodes', sts, redpandaCluster))
            ELSE /\ Return(e)
                 /\ UNCHANGED observedNodes
  /\ UNCHANGED <<store, redpandaCluster, sts, nCreated>>
  /\ Notify
  /\ UNCHANGED <<prev, aside>>

\* the outcome the store gives a status update of the Cluster c
StatusOutcome(c) ==
  IF ~apiCluster.exists THEN "NotFound"
  ELSE IF c.stale THEN "Conflict"
  ELSE "OK"

\* what r.Status().Update(ctx, &c) stores: the status of c, never its spec
WriteStatus(c) ==
  [apiCluster EXCEPT !.nodes = c.nodes.elems, !.ready = c.statusReplicas]

\* redpandaCluster.Status.Nodes = observedNodes; r.Status().Update(...)
UpdateStatusNodes ==
  /\ pc = "updateStatusNodes"
  /\ LET c == [redpandaCluster EXCEPT !.nodes = observedNodes] IN
     \E e \in Failures \cup {StatusOutcome(c)} :
       /\ calls' = Append(calls, Call("StatusUpdate", "Cluster", c.name, e))
       /\ Spend(e)
       /\ redpandaCluster' = c
       /\ IF e = "OK"
            THEN /\ apiCluster' = WriteStatus(c)
                 /\ Goto(AfterNodes(sts, c))
            ELSE /\ Return(e)
                 /\ UNCHANGED apiCluster
  /\ UNCHANGED <<apiService, apiConfigMap, apiStatefulSet, apiPods, sts,
                 observedNodes, nCreated>>
  /\ Notify
  /\ UNCHANGED <<prev, aside>>

\* redpandaCluster.Status.Replicas = sts.Status.ReadyReplicas; r.Status().Update(...)
UpdateStatusReplicas ==
  /\ pc = "updateStatusReplicas"
  /\ LET c == [redpandaCluster EXCEPT !.statusReplicas = sts.ready] IN
     \E e \in Failures \cup {StatusOutcome(c)} :
       /\ calls' = Append(calls, Call("StatusUpdate", "Cluster", c.name, e))
       /\ Spend(e)
       /\ redpandaCluster' = c
       /\ IF e = "OK"
            THEN /\ apiCluster' = WriteStatus(c)
                 /\ Goto("return")
            ELSE /\ Return(e)
                 /\ UNCHANGED apiCluster
  /\ UNCHANGED <<apiService, apiConfigMap, apiStatefulSet, apiPods, sts,
                 observedNodes, nCreated>>
  /\ Notify
  /\ UNCHANGED <<prev, aside>>

\* the invocation that has returned failed in one of its two status writes
\* while both recorded fields were behind: its last call is a failed status
\* write, the ready count is behind, and the node list is behind too or was
\* written by the invocation's first status write
StatusWriteFailed ==
  /\ calls # <<>>
  /\ calls[Len(calls)].op = "StatusUpdate"
  /\ calls[Len(calls)].res # "OK"
  /\ apiCluster.exists /\ apiStatefulSet.exists
  /\ apiCluster.ready # apiStatefulSet.ready
  /\ \/ apiCluster.nodes # apiPods
     \/ Len(SelectSeq(calls, LAMBDA c : c.op = "StatusUpdate")) = 2

\* Reconcile has returned: its frame is gone, what it returned stays with
\* the framework
Finish ==
  /\ pc = "done"
  /\ pc' = "idle"
  /\ redpandaCluster' = ZeroCluster
  /\ sts' = ZeroStatefulSet
  /\ observedNodes' = NilSlice
  /\ calls' = <<>>
  /\ UNCHANGED <<store, result, budget, clean, nCreated>>
  /\ prev' = IF StatusWriteFailed THEN budget ELSE -1
  /\ UNCHANGED <<queued, aside>>

(* ---------------------------- other writers ---------------------------- *)
InFlight == pc \notin {"idle", "done"}

\* a step of another writer at the moment Reconcile returns is the same step
\* taken right after it
Interleaved == pc # "done"

\* a write by someone else makes the copy Reconcile holds stale
Outdated(copy) == IF InFlight /\ copy.name # "" THEN [copy EXCEPT !.stale = TRUE] ELSE copy

\* the user edits the replica count of the Cluster
ExtSetReplicas ==
  /\ budget > 0
  /\ Interleaved
  /\ budget' = budget - 1
  /\ apiCluster.exists
  /\ \E n \in DesiredReplicas \ {apiCluster.replicas} :
       apiCluster' = [apiCluster EXCEPT !.replicas = n]
  /\ redpandaCluster' = Outdated(redpandaCluster)
  /\ clean' = IF InFlight THEN -1 ELSE 0
  /\ UNCHANGED <<apiService, apiConfigMap, apiStatefulSet, apiPods, pc, sts,
                 observedNodes, result, calls, nCreated>>
  /\ Notify
  /\ UNCHANGED <<prev, aside>>

\* the node set's own controller reports a new ready count
ExtSetReady ==
  /\ budget > 0
  /\ Interleaved
  /\ budget' = budget - 1
  /\ apiStatefulSet.exists
  /\ \E n \in ReadyCounts \ {apiStatefulSet.ready} :
       apiStatefulSet' = [apiStatefulSet EXCEPT !.ready = n]
  /\ sts' = Outdated(sts)
  /\ clean' = IF InFlight THEN -1 ELSE 0
  /\ UNCHANGED <<apiCluster, apiService, apiConfigMap, apiPods, pc,
                 redpandaCluster, observedNodes, result, calls, nCreated>>
  /\ Notify
  /\ UNCHANGED <<prev, aside>>

\* pods matching the cluster's labels come and go
ExtSetPods ==
  /\ budget > 0
  /\ Interleaved
  /\ budget' = budget - 1
  /\ \E ps \in PodLists \ {apiPods} : apiPods' = ps
  /\ clean' = IF InFlight THEN -1 ELSE 0
  /\ UNCHANGED <<apiCluster, apiService, apiConfigMap, apiStatefulSet, pc,
                 locals, result, calls, nCreated>>
  /\ Notify
  /\ UNCHANGED <<prev, aside>>

\* someone deletes a child resource
ExtDeleteChild ==
  /\ budget > 0
  /\ Interleaved
  /\ budget' = budget - 1
  /\ \E k \in Kinds :
       /\ CASE k = "Service" ->
                 /\ apiService.exists
                 /\ apiService' = AbsentChild
                 /\ UNCHANGED <<apiConfigMap, apiStatefulSet>>
            [] k = "ConfigMap" ->
                 /\ apiConfigMap.exists
                 /\ apiConfigMap' = AbsentChild
                 /\ UNCHANGED <<apiService, apiStatefulSet>>
            [] k = "StatefulSet" ->
                 /\ apiStatefulSet.exists
                 /\ apiStatefulSet' = AbsentStatefulSet
                 /\ UNCHANGED <<apiService, apiConfigMap>>
       /\ nCreated' = [nCreated EXCEPT ![k] = 0]
  /\ clean' = IF InFlight THEN -1 ELSE 0
  /\ UNCHANGED <<apiCluster, apiPods, pc, locals, result, calls>>
  /\ Notify
  /\ UNCHANGED <<prev, aside>>

\* the user deletes the Cluster; its owned children go with it
ExtDeleteCluster ==
  /\ budget > 0
  /\ Interleaved
  /\ budget' = budget - 1
  /\ apiCluster.exists
  /\ apiCluster' = [exists |-> FALSE, replicas |-> 0, nodes |-> <<>>, ready |-> 0]
  /\ apiService' = AbsentChild
  /\ apiConfigMap' = AbsentChild
  /\ apiStatefulSet' = AbsentStatefulSet
  /\ apiPods' = <<>>
  /\ nCreated' = [k \in Kinds |-> 0]
  /\ clean' = IF InFlight THEN -1 ELSE 0
  /\ UNCHANGED <<pc, locals, result, calls>>
  /\ Notify
  /\ UNCHANGED <<prev, aside>>

Next ==
  \/ StartReconcile
  \/ GetCluster
  \/ GetService
  \/ CreateService
  \/ GetConfigMap
  \/ CreateConfigMap
  \/ GetStatefulSet
  \/ CreateStatefulSet
  \/ UpdateStatefulSet
  \/ ListPods
  \/ UpdateStatusNodes
  \/ UpdateStatusReplicas
  \/ Finish
  \/ ExtSetReplicas
  \/ ExtSetReady
  \/ ExtSetPods
  \/ ExtDeleteChild
  \/ ExtDeleteCluster

Spec == Init /\ [][Next]_vars

\* the steps of a Reconcile invocation that has been started
Step ==
  \/ GetCluster
  \/ GetService
  \/ CreateService
  \/ GetConfigMap
  \/ CreateConfigMap
  \/ GetStatefulSet
  \/ CreateStatefulSet
  \/ UpdateStatefulSet
  \/ ListPods
  \/ UpdateStatusNodes
  \/ UpdateStatusReplicas
  \/ Finish

\* the framework requeues the key after an invocation that returned an error
Retry == StartReconcile /\ result \notin {"none", "OK"}

\* an invocation runs to completion, and a failed one is followed by another
LiveInit == InitWith(MaxLiveDisturb)
LiveSpec == LiveInit /\ [][Next]_vars /\ WF_vars(Step) /\ WF_vars(Retry)

(* ---------------------------- properties ------------------------------- *)
CallIdx == DOMAIN calls
IsCall(i, op, kind) == calls[i].op = op /\ calls[i].kind = kind
Issued(op, kind) == \E i \in CallIdx : IsCall(i, op, kind)
Answered(op, kind, res) == \E i \in CallIdx : IsCall(i, op, kind) /\ calls[i].res = res
LastCallIs(op, kind, res) ==
  /\ calls # <<>>
  /\ IsCall(Len(calls), op, kind)
  /\ calls[Len(calls)].res = res

\* a call that returned an error, a not-found fetch not counted
IsError(i) ==
  /\ calls[i].res # "OK"
  /\ ~(calls[i].op = "Get" /\ calls[i].res = "NotFound")

\* C1: when Reconcile has returned success twice in a row with no change by
\* anyone else and no failed call from the start of the first invocation on,
\* the second invocation issued no create call and no node-set update call.
C1_IdempotentConvergence ==
  (pc = "done" /\ clean = 2) =>
     /\ \A i \in CallIdx : calls[i].op # "Create"
     /\ ~Issued("Update", "StatefulSet")

\* C2: an invocation that found the Service, the ConfigMap and the
\* StatefulSet absent and whose creates succeeded issued exactly three create
\* calls, for the Service, the ConfigMap and the StatefulSet in that order,
\* and the StatefulSet it has just created has replica count 1.
C2_CreationOrdering ==
  LET creates == SelectSeq(calls, LAMBDA c : c.op = "Create") IN
  /\ (/\ \A k \in Kinds : Answered("Get", k, "NotFound")
      /\ Answered("Create", "StatefulSet", "OK"))
       => /\ [i \in DOMAIN creates |-> creates[i].kind]
               = <<"Service", "ConfigMap", "StatefulSet">>
          /\ \A i \in DOMAIN creates : creates[i].res = "OK"
  /\ (LastCallIs("Create", "StatefulSet", "OK") /\ apiStatefulSet.exists)
       => apiStatefulSet.replicas = 1

\* C2 happens: all three were absent, the StatefulSet has just been created
\* and the Cluster asks for another replica count than 1
C2_Witness ==
  /\ \A k \in Kinds : Answered("Get", k, "NotFound")
  /\ LastCallIs("Create", "StatefulSet", "OK")
  /\ apiStatefulSet.exists
  /\ redpandaCluster.replicas.val # 1

\* C3: an invocation that has created the StatefulSet issues no StatefulSet
\* update call.
C3_NoUpdateAfterCreate ==
  Answered("Create", "StatefulSet", "OK") => ~Issued("Update", "StatefulSet")

\* the stored value of the replica count Reconcile fetched into sts
FetchedDiffers == sts.replicas.val # redpandaCluster.replicas.val

\* C4: in an invocation that fetched the Service, the ConfigMap and the
\* StatefulSet, no create call is issued, and the update step, taken when the
\* fetched replica count differs from the Cluster's, leaves the StatefulSet
\* with the Cluster's replica count and every other field as it was, and
\* leaves the Service, the ConfigMap and the pods as they were.
C4_ReplicaConvergence ==
  /\ []((\A k \in Kinds : Answered("Get", k, "OK"))
          => \A i \in CallIdx : calls[i].op # "Create")
  /\ [][(pc = "updateStatefulSet" /\ pc' = "listPods" /\ sts.name # ""
          /\ FetchedDiffers)
         => /\ apiStatefulSet' =
                 [apiStatefulSet EXCEPT !.replicas = redpandaCluster.replicas.val]
            /\ apiStatefulSet'.replicas # apiStatefulSet.replicas
            /\ UNCHANGED <<apiService, apiConfigMap, apiPods>>]_vars

\* C4 happens: all three were fetched and the update has just changed the
\* replica count of the StatefulSet
C4_Witness ==
  /\ \A k \in Kinds : Answered("Get", k, "OK")
  /\ LastCallIs("Update", "StatefulSet", "OK")
  /\ apiStatefulSet.exists
  /\ apiStatefulSet.replicas = redpandaCluster.replicas.val
  /\ apiStatefulSet.replicas # 1

\* C5: when an invocation that listed the pods has returned success, the
\* node list recorded in the Cluster's status is the sequence of names of the
\* listed pods, in list order.
C5_StatusProjection ==
  (pc = "done" /\ result = "OK" /\ Answered("List", "Pod", "OK") /\ apiCluster.exists)
     => apiCluster.nodes = observedNodes.elems

\* C5 happens: a successful invocation has overwritten the recorded node list
\* with a list of two pods
C5_Witness ==
  /\ pc = "done" /\ result = "OK"
  /\ Answered("StatusUpdate", "Cluster", "OK")
  /\ Len(observedNodes.elems) = 2
  /\ apiCluster.nodes = observedNodes.elems

\* C6: when the fetch of the Cluster fails it is the only call of the
\* invocation, which has returned success for not-found and the error itself
\* for any other failure.
C6_FetchClusterFails ==
  (calls # <<>> /\ calls[1].res # "OK")
     => /\ Len(calls) = 1
        /\ pc = "done"
        /\ result = IF calls[1].res = "NotFound" THEN "OK" ELSE calls[1].res

\* C6 happens: the Cluster was not found
C6_Witness ==
  /\ LastCallIs("Get", "Cluster", "NotFound")
  /\ pc = "done" /\ result = "OK"

\* the position at which Reconcile creates a child of kind k
CreatePc(k) ==
  CASE k = "Service" -> "createService"
    [] k = "ConfigMap" -> "createConfigMap"
    [] k = "StatefulSet" -> "createStatefulSet"

\* C7: for each child kind a create call follows exactly a fetch that
\* returned not-found (it is the next call of the invocation), and a fetch
\* with any other error is the last call of the invocation, which has
\* returned that error.
C7_CreateIffNotFound ==
  \A k \in Kinds : \A i \in CallIdx :
    /\ IsCall(i, "Create", k)
         => i > 1 /\ IsCall(i - 1, "Get", k) /\ calls[i - 1].res = "NotFound"
    /\ (IsCall(i, "Get", k) /\ calls[i].res = "NotFound")
         => IF i = Len(calls) THEN pc = CreatePc(k) ELSE IsCall(i + 1, "Create", k)
    /\ (IsCall(i, "Get", k) /\ calls[i].res \notin {"OK", "NotFound"})
         => i = Len(calls) /\ pc = "done" /\ result = calls[i].res

\* C7 happens: a child fetch has failed with an error other than not-found
\* after an earlier child was created
C7_Witness ==
  /\ Answered("Create", "Service", "OK")
  /\ calls[Len(calls)].op = "Get"
  /\ calls[Len(calls)].res \in RemoteErrors

\* C8: a call that returned an error is the last call of its invocation,
\* which has returned that error, and an invocation that returned success
\* issued no call that returned an error.
C8_AbortOnFirstError ==
  /\ \A i \in CallIdx : IsError(i) =>
        i = Len(calls) /\ pc = "done" /\ result = calls[i].res
  /\ (pc = "done" /\ result = "OK") => \A i \in CallIdx : ~IsError(i)

\* C8 happens: a status write has failed after the earlier calls succeeded
C8_Witness ==
  /\ calls # <<>>
  /\ IsCall(Len(calls), "StatusUpdate", "Cluster")
  /\ IsError(Len(calls))
  /\ pc = "done" /\ result = calls[Len(calls)].res

\* what the store holds of kind k
StoredChild(k) ==
  CASE k = "Service" -> apiService
    [] k = "ConfigMap" -> apiConfigMap
    [] k = "StatefulSet" -> apiStatefulSet

\* C9: between deletions of a child by someone else it is created at most
\* once, and a step that issues a create call for a child is taken only when
\* the store holds no child of that kind.
C9_CreatedOnce ==
  /\ [](\A k \in Kinds : nCreated[k] <= 1)
  /\ [][\A k \in Kinds :
          (/\ Len(calls') = Len(calls) + 1
           /\ calls'[Len(calls')].op = "Create"
           /\ calls'[Len(calls')].kind = k)
          => ~StoredChild(k).exists]_vars

\* C9 happens: after a failed invocation a later one has gone past the
\* children already created and created the remaining one
C9_Witness ==
  /\ \A k \in Kinds : nCreated[k] = 1
  /\ Answered("Get", "Service", "OK")
  /\ Answered("Create", "StatefulSet", "OK")

\* all children exist, the replica count is the desired one and the status
\* records what the control plane shows
Converged ==
  /\ apiCluster.exists
  /\ apiService.exists /\ apiConfigMap.exists /\ apiStatefulSet.exists
  /\ apiStatefulSet.replicas = apiCluster.replicas
  /\ apiCluster.nodes = apiPods
  /\ apiCluster.ready = apiStatefulSet.ready

\* C10: once nobody else writes and no call fails any more, an invocation
\* that starts leads, with a new invocation after every failed one, to a
\* state in which all three children exist, the StatefulSet's replica count is
\* the Cluster's, and the recorded node list and ready count are those of the
\* pods and of the StatefulSet.
C10_ForwardProgress ==
  (budget = 0 /\ pc = "getCluster" /\ apiCluster.exists) ~> Converged

\* C10 happens: the state is reached by an invocation that had to finish
\* what a failed one left (children present, status behind)
C10_Witness ==
  /\ Converged
  /\ budget = 0
  /\ pc = "done" /\ result = "OK"
  /\ Answered("StatusUpdate", "Cluster", "OK")
  /\ apiPods # <<>>
  /\ apiStatefulSet.replicas # 1

\* the call this step issues
IssuesCall(op, kind, res) ==
  /\ Len(calls') = Len(calls) + 1
  /\ calls'[Len(calls')] = Call(op, kind, calls'[Len(calls')].name, res)

\* C12: a step of Reconcile leaves the pods as they are and removes nothing
\* from the store; it changes the Service or the ConfigMap only by a
\* successful create of one that was absent, the StatefulSet only by such a
\* create or by a successful update that changes its replica count alone, and
\* the Cluster only by a status write that leaves its spec as it was, also
\* when the Cluster's spec has changed since the children were created.
C12_Frame ==
  [][Step =>
      /\ apiPods' = apiPods
      /\ \A k \in Kinds : StoredChild(k).exists => StoredChild(k)'.exists
      /\ apiService' # apiService
           => ~apiService.exists /\ IssuesCall("Create", "Service", "OK")
      /\ apiConfigMap' # apiConfigMap
           => ~apiConfigMap.exists /\ IssuesCall("Create", "ConfigMap", "OK")
      /\ apiStatefulSet' # apiStatefulSet
           => \/ ~apiStatefulSet.exists /\ IssuesCall("Create", "StatefulSet", "OK")
              \/ /\ IssuesCall("Update", "StatefulSet", "OK")
                 /\ apiStatefulSet' =
                      [apiStatefulSet EXCEPT !.replicas = apiStatefulSet'.replicas]
      /\ apiCluster' # apiCluster
           => /\ IssuesCall("StatusUpdate", "Cluster", "OK")
              /\ apiCluster' = [apiCluster EXCEPT !.nodes = apiCluster'.nodes,
                                                  !.ready = apiCluster'.ready]]_vars

\* C12 happens: the Cluster's spec was changed while an invocation was under
\* way that found the Service and the ConfigMap of an earlier one, updated the
\* StatefulSet and has returned
C12_Witness ==
  /\ pc = "done"
  /\ redpandaCluster.stale
  /\ Answered("Get", "Service", "OK")
  /\ Answered("Get", "ConfigMap", "OK")
  /\ Answered("Update", "StatefulSet", "OK")
  /\ apiService.exists /\ apiConfigMap.exists

(* ---------------------------- two runs compared ------------------------ *)
\* the create and update calls on children among the calls cs
ChildWrites(cs) == SelectSeq(cs, LAMBDA c : c.op \in {"Create", "Update"})

\* a child as an earlier invocation created it
CreatedChild(obj) == [obj EXCEPT !.owner = Name]

\* the children an invocation that failed has left behind: those it had
\* created, in the order it creates them
ChildrenLeft ==
  { <<AbsentChild, AbsentChild, AbsentStatefulSet>>,
    <<CreatedChild(HeadlessService(DecodeCluster(apiCluster))), AbsentChild,
      AbsentStatefulSet>>,
    <<CreatedChild(HeadlessService(DecodeCluster(apiCluster))),
      CreatedChild(BootstrapConfigMap(DecodeCluster(apiCluster))),
      AbsentStatefulSet>> }

\* what the store may hold of the children: those left behind, or all three,
\* the StatefulSet with the replica count it was created with or the one
\* asked for
PairChildren(n) ==
  ChildrenLeft
  \cup
  { <<CreatedChild(HeadlessService(DecodeCluster(apiCluster))),
      CreatedChild(BootstrapConfigMap(DecodeCluster(apiCluster))),
      [CreatedChild(BootstrapStatefulSet(DecodeCluster(apiCluster)))
         EXCEPT !.replicas = r, !.ready = y]>>
      : r \in {BootstrapReplicas, n}, y \in ReadyCounts }

\* a store with any recorded status, no other writer and no failing call
PairInit ==
  /\ apiCluster \in { [exists |-> TRUE, replicas |-> n, nodes |-> ns, ready |-> y]
                        : n \in DesiredReplicas, ns \in PodLists, y \in ReadyCounts }
  /\ \E ch \in PairChildren(apiCluster.replicas) :
       /\ apiService = ch[1]
       /\ apiConfigMap = ch[2]
       /\ apiStatefulSet = ch[3]
  /\ apiPods \in PodLists
  /\ pc = "idle"
  /\ redpandaCluster = ZeroCluster
  /\ sts = ZeroStatefulSet
  /\ observedNodes = NilSlice
  /\ result = "none"
  /\ calls = <<>>
  /\ budget = 0
  /\ clean = 0
  /\ nCreated = [k \in Kinds |-> IF StoredChild(k).exists THEN 1 ELSE 0]
  /\ queued = TRUE
  /\ prev = -1
  /\ scheme = Scheme
  /\ twin = [phase |-> 1, saved |-> store,
             first |-> [writes |-> <<>>, result |-> "none",
                        nodes |-> <<>>, ready |-> 0]]
  /\ synth = NoSynth
  /\ multi = NoMulti

\* the first run has returned: what it did is kept, and the second run starts
\* from the store the first one started from, with another recorded status
SecondRun ==
  /\ pc = "done"
  /\ twin.phase = 1
  /\ \E ns \in PodLists, y \in ReadyCounts :
       /\ <<ns, y>> # <<twin.saved[1].nodes, twin.saved[1].ready>>
       /\ apiCluster' = [twin.saved[1] EXCEPT !.nodes = ns, !.ready = y]
  /\ apiService' = twin.saved[2]
  /\ apiConfigMap' = twin.saved[3]
  /\ apiStatefulSet' = twin.saved[4]
  /\ apiPods' = twin.saved[5]
  /\ twin' = [twin EXCEPT !.phase = 2,
                          !.first = [writes |-> ChildWrites(calls),
                                     result |-> result,
                                     nodes |-> apiCluster.nodes,
                                     ready |-> apiCluster.ready]]
  /\ pc' = "getCluster"
  /\ redpandaCluster' = ZeroCluster
  /\ sts' = ZeroStatefulSet
  /\ observedNodes' = NilSlice
  /\ result' = "none"
  /\ calls' = <<>>
  /\ clean' = 0
  /\ nCreated' = [k \in Kinds |-> IF StoredChild(k)'.exists THEN 1 ELSE 0]
  /\ queued' = FALSE
  /\ UNCHANGED <<budget, prev, scheme, synth, multi>>

PairNext ==
  \/ StartReconcile
  \/ GetCluster
  \/ GetService
  \/ CreateService
  \/ GetConfigMap
  \/ CreateConfigMap
  \/ GetStatefulSet
  \/ CreateStatefulSet
  \/ UpdateStatefulSet
  \/ ListPods
  \/ UpdateStatusNodes
  \/ UpdateStatusReplicas
  \/ SecondRun

\* two invocations from stores that differ in the recorded status only
PairSpec == PairInit /\ [][PairNext]_vars

\* C11: of two invocations that start from stores differing only in the
\* Cluster's recorded status, the second has issued the same create and update
\* calls on children, with the same outcomes and in the same order, as the
\* first, has returned what the first returned, and when that is success the
\* recorded status is the same after both.
C11_StatusNotAnInput ==
  (twin.phase = 2 /\ pc = "done") =>
     /\ ChildWrites(calls) = twin.first.writes
     /\ result = twin.first.result
     /\ result = "OK" => /\ apiCluster.nodes = twin.first.nodes
                         /\ apiCluster.ready = twin.first.ready

\* C11 happens: the first run started with the status both runs end with, the
\* second with another one, which it has overwritten in two status writes
\* after the same StatefulSet update
C11_Witness ==
  /\ twin.phase = 2 /\ pc = "done" /\ result = "OK"
  /\ twin.saved[1].nodes = apiCluster.nodes
  /\ twin.saved[1].ready = apiCluster.ready
  /\ apiPods # <<>>
  /\ Len(SelectSeq(calls, LAMBDA c : c.op = "StatusUpdate")) = 2
  /\ twin.first.writes # <<>>

\* the Cluster's status records what the control plane shows
StatusUpToDate ==
  /\ apiCluster.nodes = apiPods
  /\ apiCluster.ready = apiStatefulSet.ready

\* C13: when one of the two status writes of an invocation failed while the
\* recorded node list and the recorded ready count were both behind, the next
\* invocation, with no other writer and no failed call since, has returned
\* success and left both the node list and the ready count up to date.
C13_SeparateStatusWrites ==
  (pc = "done" /\ prev >= 0 /\ prev = budget)
     => result = "OK" /\ StatusUpToDate

\* C13 happens: the node-list write of the previous invocation failed with
\* pods present and both fields behind, and this invocation has written both
C13_Witness ==
  /\ pc = "done" /\ result = "OK"
  /\ prev >= 0 /\ prev = budget
  /\ apiPods # <<>>
  /\ Len(SelectSeq(calls, LAMBDA c : c.op = "StatusUpdate")) = 2
  /\ StatusUpToDate

(* ---------------------------- the bootstrap configuration -------------- *)
\* the port numbers a Cluster's spec may give; 0 is a port left unset
MaxPort == 3
Ports == 0..MaxPort
\* the highest ordinal of a pod the script is run on
MaxOrdinal == 10

dataDirectory == "/var/lib/redpanda/data"

\* the ports of config.Default().Redpanda: the engine's own port, not zero,
\* for each role
ConfigDefaults == [rpc : 1..MaxPort, kafka : 1..MaxPort, admin : 1..MaxPort]

\* the Cluster's Spec.Configuration
RedpandaConfigs ==
  [rpc : Ports, kafka : Ports, admin : Ports, developerMode : BOOLEAN]

\* config.SocketAddress
SocketAddress(a, p) == [address |-> a, port |-> p]

\* the kafka port falling back to the default of the RPC role
copyConfig_DefaultOfRPC(c, cfgDefaults) ==
  [rpcServer |-> SocketAddress("0.0.0.0",
                   IF c.rpc = 0 THEN cfgDefaults.rpc ELSE c.rpc),
   advertisedRPC |-> SocketAddress("", 0),
   kafkaApi |-> SocketAddress("0.0.0.0",
                   IF c.kafka = 0 THEN cfgDefaults.rpc ELSE c.kafka),
   advertisedKafka |-> SocketAddress("", 0),
   adminApi |-> SocketAddress("0.0.0.0",
                   IF c.admin = 0 THEN cfgDefaults.admin ELSE c.admin),
   developerMode |-> c.developerMode,
   id |-> 0, directory |-> "", seedServers |-> <<>>]

\* copyConfig: the fields it does not name are left at their zero value
copyConfig(c, cfgDefaults) ==
  LET rpcServerPort == IF c.rpc = 0 THEN cfgDefaults.rpc ELSE c.rpc
      kafkaAPIPort == IF c.kafka = 0 THEN cfgDefaults.kafka ELSE c.kafka
      AdminAPIPort == IF c.admin = 0 THEN cfgDefaults.admin ELSE c.admin
  IN [rpcServer |-> SocketAddress("0.0.0.0", rpcServerPort),
      advertisedRPC |-> SocketAddress("", 0),
      kafkaApi |-> SocketAddress("0.0.0.0", kafkaAPIPort),
      advertisedKafka |-> SocketAddress("", 0),
      adminApi |-> SocketAddress("0.0.0.0", AdminAPIPort),
      developerMode |-> c.developerMode,
      id |-> 0, directory |-> "", seedServers |-> <<>>]

\* serviceAddress := cluster.Name + "." + cluster.Namespace + ".svc.cluster.local"
serviceAddress(cluster) ==
  cluster.name \o "." \o cluster.namespace \o ".svc.cluster.local"

\* the configuration createBootstrapConfigMap marshals into redpanda.yaml
BootstrapConfig(cluster, cfgDefaults) ==
  LET copied == copyConfig(cluster.configuration, cfgDefaults)
      cfg == [copied EXCEPT !.id = 0,
                            !.advertisedKafka.port = copied.kafkaApi.port,
                            !.advertisedRPC.port = copied.rpcServer.port,
                            !.directory = dataDirectory]
  IN [cfg EXCEPT !.seedServers =
        << SocketAddress(cluster.name \o "-0." \o serviceAddress(cluster),
                         cfg.advertisedRPC.port) >>]

\* strconv.Itoa: the decimal digits of n
RECURSIVE Itoa(_)
Itoa(n) ==
  IF n < 10 THEN <<ToString(n)>>
  ELSE Append(Itoa(n \div 10), ToString(n % 10))

IsDigit(ch) == \E d \in 0..9 : ToString(d) = ch
IsNumber(text) == text # <<>> /\ \A i \in DOMAIN text : IsDigit(text[i])

\* the number a text of decimal digits stands for
RECURSIVE Atoi(_)
Atoi(text) ==
  IF text = <<>> THEN 0
  ELSE 10 * Atoi(SubSeq(text, 1, Len(text) - 1))
         + (CHOOSE d \in 0..9 : ToString(d) = text[Len(text)])

\* the characters of a text put together
RECURSIVE Concat(_)
Concat(text) == IF text = <<>> THEN "" ELSE text[1] \o Concat(Tail(text))

\* the characters of the Cluster's name
NameChars == <<"c", "l", "u", "s", "t", "e", "r", "-", "a">>

\* the hostname of the node set's pod of ordinal i: <node set name>-<i>
Hostname(i) == NameChars \o <<"-">> \o Itoa(i)

\* ${HOSTNAME##*-}: the longest prefix that ends in a dash is cut off
AfterLastDash(h) ==
  IF \E i \in DOMAIN h : h[i] = "-"
    THEN LET last == CHOOSE i \in DOMAIN h :
                       h[i] = "-" /\ \A j \in DOMAIN h : j > i => h[j] # "-"
         IN SubSeq(h, last + 1, Len(h))
    ELSE h

\* an ordinal taken for 0 when its last digit is 0
IsOrdinalZero_LastDigit(text) == text # <<>> /\ text[Len(text)] = "0"

\* [ "$ORDINAL_INDEX" = "0" ]
IsOrdinalZero(text) == text = <<"0">>

\* what createBootstrapConfigMap writes into the text of configurator.sh
ConfiguratorScript(cluster, cfg) ==
  [serviceAddress |-> serviceAddress(cluster),
   rpcPort |-> Itoa(cfg.advertisedRPC.port),
   kafkaPort |-> Itoa(cfg.advertisedKafka.port)]

\* configurator.sh run on the pod with hostname HOSTNAME: the mounted
\* configuration is copied and patched; with set -e a failing step ends the
\* script
RunScript(script, HOSTNAME, mounted) ==
  LET ORDINAL_INDEX == AfterLastDash(HOSTNAME)
      SERVICE_NAME == Concat(HOSTNAME) \o "." \o script.serviceAddress
      withId == [mounted EXCEPT !.id = Atoi(ORDINAL_INDEX)]
      withSeeds == IF IsOrdinalZero(ORDINAL_INDEX)
                     THEN [withId EXCEPT !.seedServers = <<>>]
                     ELSE withId
  IN IF ~IsNumber(ORDINAL_INDEX)
       THEN [ok |-> FALSE, config |-> mounted]
       ELSE [ok |-> TRUE,
             config |-> [withSeeds EXCEPT
                !.advertisedRPC = SocketAddress(SERVICE_NAME, Atoi(script.rpcPort)),
                !.advertisedKafka = SocketAddress(SERVICE_NAME, Atoi(script.kafkaPort))]]

\* what neither the synthesis nor the script touches
machine == <<apiCluster, apiService, apiConfigMap, apiStatefulSet, apiPods, pc,
             redpandaCluster, sts, observedNodes, result, calls, budget,
             clean, nCreated, queued, prev, scheme, twin>>

\* a Cluster with any configuration, and any defaults of the engine
SynthInit ==
  /\ apiCluster = [exists |-> TRUE, replicas |-> BootstrapReplicas,
                   nodes |-> <<>>, ready |-> 0]
  /\ apiService = AbsentChild
  /\ apiConfigMap = AbsentChild
  /\ apiStatefulSet = AbsentStatefulSet
  /\ apiPods = <<>>
  /\ pc = "createConfigMap"
  /\ redpandaCluster = DecodeCluster(apiCluster)
  /\ sts = ZeroStatefulSet
  /\ observedNodes = NilSlice
  /\ result = "none"
  /\ calls = <<>>
  /\ budget = 0
  /\ clean = 0
  /\ nCreated = [k \in Kinds |-> 0]
  /\ queued = FALSE
  /\ prev = -1
  /\ scheme = Scheme
  /\ twin = NoTwin
  /\ synth \in { [phase |-> "spec",
                   cluster |-> [name |-> Name, namespace |-> Namespace,
                                configuration |-> c],
                   defaults |-> d]
                   : c \in RedpandaConfigs, d \in ConfigDefaults }
  /\ multi = NoMulti

\* the port createHeadlessService gives the Service: kafka-tcp, Port and
\* TargetPort
ServicePort(clusterSpec) ==
  [name |-> "kafka-tcp",
   port |-> clusterSpec.configuration.kafka,
   targetPort |-> clusterSpec.configuration.kafka]

\* the ports createBootstrapStatefulSet declares on the redpanda container
ContainerPorts(cluster) ==
  [admin |-> cluster.configuration.admin,
   kafka |-> cluster.configuration.kafka,
   rpc |-> cluster.configuration.rpc]

\* the three create functions build their objects from one Cluster:
\* the Service's port, the configuration and the script, the container ports
Synthesize ==
  /\ synth.phase = "spec"
  /\ synth' = LET cfg == BootstrapConfig(synth.cluster, synth.defaults) IN
               [phase |-> "built", cluster |-> synth.cluster,
                defaults |-> synth.defaults, cfg |-> cfg,
                script |-> ConfiguratorScript(synth.cluster, cfg),
                service |-> ServicePort(synth.cluster),
                containers |-> ContainerPorts(synth.cluster)]
  /\ UNCHANGED <<machine, multi>>

\* the init container of a pod runs the script on the mounted configuration
Configure ==
  /\ synth.phase = "built"
  /\ \E i \in 0..MaxOrdinal :
       synth' = [phase |-> "applied", cluster |-> synth.cluster,
                 defaults |-> synth.defaults, cfg |-> synth.cfg,
                 script |-> synth.script, service |-> synth.service,
                 containers |-> synth.containers, ordinal |-> i,
                 run |-> RunScript(synth.script, Hostname(i), synth.cfg)]
  /\ UNCHANGED <<machine, multi>>

SynthNext ==
  \/ Synthesize
  \/ Configure

\* the configuration artifact of a Cluster, built and applied on one pod
SynthSpec == SynthInit /\ [][SynthNext]_vars

\* C14: each listen port of the generated configuration, for RPC, kafka and
\* admin, is the port the Cluster's spec gives for that role when that is not
\* zero and the engine's default for that role when it is zero; with the kafka
\* port unset and the RPC port set, the kafka listen port is the kafka
\* default, is not zero, and differs from the RPC listen port unless the
\* kafka default is that very number.
C14_PortFallback ==
  synth.phase \in {"built", "applied"} =>
    LET c == synth.cluster.configuration
        d == synth.defaults
        cfg == synth.cfg
    IN /\ cfg.rpcServer.port = IF c.rpc # 0 THEN c.rpc ELSE d.rpc
       /\ cfg.kafkaApi.port = IF c.kafka # 0 THEN c.kafka ELSE d.kafka
       /\ cfg.adminApi.port = IF c.admin # 0 THEN c.admin ELSE d.admin
       /\ (c.kafka = 0 /\ c.rpc # 0)
            => /\ cfg.kafkaApi.port = d.kafka
               /\ cfg.kafkaApi.port # 0
               /\ d.kafka # c.rpc => cfg.kafkaApi.port # cfg.rpcServer.port

\* C14 happens: the kafka port is unset, the RPC port is set to a number that
\* is neither default, and the configuration has been built
C14_Witness ==
  /\ synth.phase = "built"
  /\ synth.cluster.configuration.kafka = 0
  /\ synth.cluster.configuration.rpc # 0
  /\ synth.cluster.configuration.rpc \notin {synth.defaults.rpc, synth.defaults.kafka}
  /\ synth.defaults.rpc # synth.defaults.kafka
  /\ synth.cfg.kafkaApi.port = synth.defaults.kafka

\* the fully-qualified domain name of the pod of ordinal i
PodFQDN(i) ==
  PodName(i) \o "." \o Name \o "." \o Namespace \o ".svc.cluster.local"

\* C15: the generated configuration has exactly one seed-server entry, the
\* fully-qualified domain name of the pod of ordinal 0 with the RPC listen
\* port; the script run on the pod of ordinal 0 leaves the seed-server list
\* empty, run on a pod of another ordinal it leaves the list as generated, and
\* in both cases it sets the node id to the pod's ordinal.
C15_OrdinalZeroBootstrap ==
  /\ synth.phase \in {"built", "applied"}
       => synth.cfg.seedServers =
            << SocketAddress(PodFQDN(0), synth.cfg.rpcServer.port) >>
  /\ synth.phase = "applied"
       => /\ synth.run.ok
          /\ synth.run.config.id = synth.ordinal
          /\ synth.run.config.seedServers =
                IF synth.ordinal = 0 THEN <<>> ELSE synth.cfg.seedServers

\* C15 happens: the script has run on the pod of ordinal 10, whose seed-server
\* list is the generated one
C15_Witness ==
  /\ synth.phase = "applied"
  /\ synth.ordinal = 10
  /\ synth.run.config.id = 10
  /\ Len(synth.run.config.seedServers) = 1

\* C16: when no invocation is under way and the last one returned success, a
\* change by another writer to the Cluster or to one of its children
\* (Service, ConfigMap, StatefulSet) leaves the key on the work queue, so that
\* Reconcile is invoked for it again.
C16_ReinvokedOnChange ==
  [][(/\ pc = "idle" /\ result = "OK"
      /\ apiCluster.exists
      /\ \A k \in Kinds : StoredChild(k).exists
      /\ <<apiCluster, apiService, apiConfigMap, apiStatefulSet>>'
            # <<apiCluster, apiService, apiConfigMap, apiStatefulSet>>)
     => queued']_vars

\* the outcome of the call this step issues
Outcome == calls'[Len(calls')].res

\* C17: a StatefulSet update or a status write made from a copy that another
\* writer has outdated since Reconcile fetched it fails, with a conflict
\* unless the call fails remotely or the object is gone; the store keeps the
\* object as the other writer left it, the invocation returns that error with
\* no further call, and every write of an invocation comes after that
\* invocation's own fetch of the object.
C17_NoLostUpdate ==
  /\ [][(pc = "updateStatefulSet" /\ sts.stale /\ pc' # pc)
          => /\ IssuesCall("Update", "StatefulSet", Outcome)
             /\ Outcome \in {"Conflict"} \cup RemoteErrors
                              \cup (IF apiStatefulSet.exists THEN {} ELSE {"NotFound"})
             /\ apiStatefulSet' = apiStatefulSet
             /\ pc' = "done" /\ result' = Outcome]_vars
  /\ [][(pc \in {"updateStatusNodes", "updateStatusReplicas"}
           /\ redpandaCluster.stale /\ pc' # pc)
          => /\ IssuesCall("StatusUpdate", "Cluster", Outcome)
             /\ Outcome \in {"Conflict"} \cup RemoteErrors
                              \cup (IF apiCluster.exists THEN {} ELSE {"NotFound"})
             /\ apiCluster' = apiCluster
             /\ pc' = "done" /\ result' = Outcome]_vars
  /\ [](\A i \in CallIdx :
          calls[i].op \in {"Update", "StatusUpdate"}
            => \E j \in 1..(i - 1) : IsCall(j, "Get", calls[i].kind))

\* C17 happens: the StatefulSet's ready count was changed by its controller
\* after Reconcile fetched it, the update failed with a conflict and the store
\* holds the controller's ready count
C17_Witness ==
  /\ pc = "done" /\ result = "Conflict"
  /\ LastCallIs("Update", "StatefulSet", "Conflict")
  /\ sts.stale
  /\ apiStatefulSet.exists
  /\ apiStatefulSet.ready # sts.ready
  /\ apiStatefulSet.replicas # sts.replicas.val

\* C19: right after the pods were listed, Reconcile goes on to the node-list
\* status write exactly when the names of the listed pods, in list order,
\* differ from the node list recorded in the fetched Cluster (not when there
\* are no pods and the recorded list is empty or was never set), and otherwise
\* goes on to the ready-count status write exactly when the StatefulSet's ready
\* count differs from the recorded one.
C19_StatusWriteOnDifference ==
  LastCallIs("List", "Pod", "OK") =>
    /\ pc = "updateStatusNodes"
         <=> observedNodes.elems # redpandaCluster.nodes.elems
    /\ pc = "updateStatusReplicas"
         => sts.ready # redpandaCluster.statusReplicas
    /\ pc = "done" => sts.ready = redpandaCluster.statusReplicas

\* a reconciler whose scheme lacks the Cluster kind, so that setting the
\* owner reference fails, started on what a complete one may have left
Incomplete(b) ==
  /\ apiCluster \in { [exists |-> TRUE, replicas |-> n, nodes |-> <<>>, ready |-> 0]
                        : n \in DesiredReplicas }
  /\ \E ch \in ChildrenLeft :
       /\ apiService = ch[1]
       /\ apiConfigMap = ch[2]
       /\ apiStatefulSet = ch[3]
  /\ apiPods = <<>>
  /\ pc = "idle"
  /\ redpandaCluster = ZeroCluster
  /\ sts = ZeroStatefulSet
  /\ observedNodes = NilSlice
  /\ result = "none"
  /\ calls = <<>>
  /\ budget = b
  /\ clean = 0
  /\ nCreated = [k \in Kinds |-> IF StoredChild(k).exists THEN 1 ELSE 0]
  /\ queued = TRUE
  /\ prev = -1
  /\ scheme = Scheme \ {"Cluster"}
  /\ twin = NoTwin
  /\ synth = NoSynth
  /\ multi = NoMulti

\* a reconciler with a complete scheme or with one that lacks the Cluster kind
OwnerInit == Init \/ Incomplete(MaxDisturb)

OwnerSpec == OwnerInit /\ [][Next]_vars

\* C20: every Service, ConfigMap and StatefulSet in the store, each created by
\* Reconcile, has the Cluster it was reconciled for as its controller owner
\* and is in that Cluster's namespace; and a create step in which setting the
\* owner reference fails issues no call, leaves the store as it is and ends
\* the invocation with that error.
C20_Ownership ==
  /\ [](\A k \in Kinds :
          StoredChild(k).exists
            => /\ StoredChild(k).owner = Name
               /\ StoredChild(k).namespace = Namespace)
  /\ [][(pc \in {CreatePc(k) : k \in Kinds} /\ "Cluster" \notin scheme /\ pc' # pc)
          => /\ calls' = calls
             /\ store' = store
             /\ pc' = "done"
             /\ result' = "NoKindRegistered"]_vars

\* C20 happens: an invocation has created all three children, each owned by
\* the Cluster
C20_Witness ==
  /\ LastCallIs("Create", "StatefulSet", "OK")
  /\ Answered("Create", "Service", "OK")
  /\ Answered("Create", "ConfigMap", "OK")
  /\ \A k \in Kinds : StoredChild(k).exists /\ StoredChild(k).owner = Name

(* ---------------------------- two Clusters ----------------------------- *)
\* two keys in one namespace; the second Cluster is named as the first one's
\* ConfigMap is
Keys == {Name, Name \o baseSuffix}

\* the name under which Reconcile fetches the child of a kind
ChildName(kind, clusterName) ==
  IF kind = "ConfigMap" THEN clusterName \o baseSuffix ELSE clusterName

ObjectNames == { ChildName(kind, k) : kind \in Kinds, k \in Keys }

Absent(kind) == IF kind = "StatefulSet" THEN AbsentStatefulSet ELSE AbsentChild

\* r.Get(ctx, req.NamespacedName, &redpandaCluster) for the key k
DecodeClusterOf(k, c) == [DecodeCluster(c) EXCEPT !.name = k]

\* the object the create function of the kind builds for the Cluster c
Build(kind, c) ==
  CASE kind = "Service" -> HeadlessService(c)
    [] kind = "ConfigMap" -> BootstrapConfigMap(c)
    [] kind = "StatefulSet" -> BootstrapStatefulSet(c)

GetPc(kind) ==
  CASE kind = "Service" -> "getService"
    [] kind = "ConfigMap" -> "getConfigMap"
    [] kind = "StatefulSet" -> "getStatefulSet"

\* where Reconcile goes once the child of the kind is there
PastChild(kind, l) ==
  CASE kind = "Service" -> "getConfigMap"
    [] kind = "ConfigMap" -> "getStatefulSet"
    [] kind = "StatefulSet" -> AfterStatefulSet(l.s, l.c)

\* the child of a kind as an invocation for the key k creates it
ChildOf(kind, k) ==
  IF kind = "StatefulSet"
    THEN [exists |-> TRUE, name |-> ChildName(kind, k), namespace |-> Namespace,
          owner |-> k, replicas |-> BootstrapReplicas, ready |-> 0]
    ELSE [exists |-> TRUE, name |-> ChildName(kind, k), namespace |-> Namespace,
          owner |-> k]

\* how many of its children a Cluster has at the start, in creation order
ChildCount(n) ==
  [Service |-> n >= 1, ConfigMap |-> n >= 2, StatefulSet |-> n >= 3]

\* the invocation for a key before its first call
Invoked ==
  [pc |-> "getCluster", c |-> ZeroCluster, s |-> ZeroStatefulSet,
   nodes |-> NilSlice, result |-> "none", calls |-> <<>>]

\* the store at the start: each Cluster with some of its children, its
\* StatefulSet with any replica and ready count, and with or without a pod
MultiStores ==
  { [cluster |-> [k \in Keys |->
                    [exists |-> TRUE, replicas |-> want[k], nodes |-> <<>>, ready |-> 0]],
     obj |-> [kind \in Kinds |-> [n \in ObjectNames |->
                IF \E k \in Keys : n = ChildName(kind, k) /\ ChildCount(have[k])[kind]
                  THEN LET k == CHOOSE k \in Keys : n = ChildName(kind, k) IN
                       IF kind = "StatefulSet"
                         THEN [ChildOf(kind, k) EXCEPT !.replicas = has[k],
                                                       !.ready = rdy[k]]
                         ELSE ChildOf(kind, k)
                  ELSE Absent(kind)]],
     pods |-> [k \in Keys |-> IF pod[k] THEN <<k \o "-0">> ELSE <<>>]]
    : want \in [Keys -> DesiredReplicas], have \in [Keys -> 0..3],
      has \in [Keys -> {BootstrapReplicas, MaxReplicas}],
      rdy \in [Keys -> {0, MaxReplicas}], pod \in [Keys -> BOOLEAN] }

MultiInit ==
  /\ apiCluster = [exists |-> FALSE, replicas |-> 0, nodes |-> <<>>, ready |-> 0]
  /\ apiService = AbsentChild
  /\ apiConfigMap = AbsentChild
  /\ apiStatefulSet = AbsentStatefulSet
  /\ apiPods = <<>>
  /\ pc = "idle"
  /\ redpandaCluster = ZeroCluster
  /\ sts = ZeroStatefulSet
  /\ observedNodes = NilSlice
  /\ result = "none"
  /\ calls = <<>>
  /\ budget = 0
  /\ clean = 0
  /\ nCreated = [k \in Kinds |-> 0]
  /\ queued = FALSE
  /\ prev = -1
  /\ scheme = Scheme
  /\ twin = NoTwin
  /\ synth = NoSynth
  /\ multi \in { [phase |-> "two", cluster |-> st.cluster, obj |-> st.obj,
                  pods |-> st.pods, inv |-> [k \in Keys |-> Invoked],
                  start |-> st, overlap |-> FALSE] : st \in MultiStores }

\* the invocation for the key k
Local(k) == multi.inv[k]

\* another invocation has issued calls and has not returned
Overlapping(k) ==
  \E j \in Keys \ {k} : Local(j).calls # <<>> /\ Local(j).pc # "done"

\* the invocation l goes on at p after the call, or returns nil
Onward(l, p, call) ==
  [l EXCEPT !.pc = IF p = "return" THEN "done" ELSE p,
            !.result = IF p = "return" THEN "OK" ELSE @,
            !.calls = Append(@, call)]

\* the invocation l returns the error e after the call
Failed(l, e, call) ==
  [l EXCEPT !.pc = "done", !.result = e, !.calls = Append(@, call)]

\* a step of the invocation for k: its frame, the children and the Clusters
\* after it
Stepped(k, l, objs, clusters) ==
  /\ multi' = [multi EXCEPT !.inv[k] = l, !.obj = objs, !.cluster = clusters,
                            !.overlap = @ \/ Overlapping(k)]
  /\ UNCHANGED <<machine, synth>>

\* r.Get(ctx, req.NamespacedName, &redpandaCluster)
MultiGetCluster(k) ==
  /\ multi.phase = "two"
  /\ Local(k).pc = "getCluster"
  /\ LET l == Local(k)
         e == IF multi.cluster[k].exists THEN "OK" ELSE "NotFound"
         call == Call("Get", "Cluster", k, e)
     IN Stepped(k,
          IF e = "OK"
            THEN Onward([l EXCEPT !.c = DecodeClusterOf(k, multi.cluster[k])],
                        "getService", call)
            ELSE Failed(l, IgnoreNotFound(e), call),
          multi.obj, multi.cluster)

\* r.Get(ctx, {Name: <child name>, Namespace: ...}, &<child>)
MultiGetChild(k, kind) ==
  /\ multi.phase = "two"
  /\ Local(k).pc = GetPc(kind)
  /\ LET l == Local(k)
         name == ChildName(kind, l.c.name)
         obj == multi.obj[kind][name]
         e == GetOutcome(obj, name)
         call == Call("Get", kind, name, e)
         fetched == IF kind = "StatefulSet"
                      THEN [l EXCEPT !.s = DecodeStatefulSet(obj)]
                      ELSE l
     IN Stepped(k,
          IF e = "OK" THEN Onward(fetched, PastChild(kind, fetched), call)
          ELSE IF IsNotFound(e) THEN Onward(l, CreatePc(kind), call)
          ELSE Failed(l, e, call),
          multi.obj, multi.cluster)

\* createHeadlessService, createBootstrapConfigMap, createBootstrapStatefulSet
MultiCreateChild(k, kind) ==
  /\ multi.phase = "two"
  /\ Local(k).pc = CreatePc(kind)
  /\ LET l == Local(k)
         ref == SetControllerReference(l.c, Build(kind, l.c))
         e == CreateOutcome(multi.obj[kind][ref.obj.name], ref.obj)
         call == Call("Create", kind, ref.obj.name, e)
     IN IF ref.err # "OK"
          THEN Stepped(k, [l EXCEPT !.pc = "done", !.result = ref.err],
                       multi.obj, multi.cluster)
        ELSE IF e = "OK"
          THEN Stepped(k, Onward(l, PastChild(kind, l), call),
                       [multi.obj EXCEPT ![kind][ref.obj.name] = ref.obj],
                       multi.cluster)
        ELSE Stepped(k, Failed(l, e, call), multi.obj, multi.cluster)

\* sts.Spec.Replicas = redpandaCluster.Spec.Replicas; r.Update(ctx, &sts)
MultiUpdateStatefulSet(k) ==
  /\ multi.phase = "two"
  /\ Local(k).pc = "updateStatefulSet"
  /\ LET l == Local(k)
         s == SetReplicas(l.s, l.c)
         e == IF s.name = "" THEN "Invalid"
              ELSE IF ~multi.obj["StatefulSet"][s.name].exists THEN "NotFound"
              ELSE "OK"
         call == Call("Update", "StatefulSet", s.name, e)
         objs == [multi.obj EXCEPT !["StatefulSet"][s.name].replicas = s.replicas.val]
     IN IF e = "OK"
          THEN Stepped(k,
                 Onward([l EXCEPT !.s = DecodeStatefulSet(objs["StatefulSet"][s.name])],
                        "listPods", call),
                 objs, multi.cluster)
          ELSE Stepped(k, Failed([l EXCEPT !.s = s], e, call),
                       multi.obj, multi.cluster)

\* r.List(ctx, &observedPods, ...): the pods with the Cluster's labels
MultiListPods(k) ==
  /\ multi.phase = "two"
  /\ Local(k).pc = "listPods"
  /\ LET l == [Local(k) EXCEPT !.nodes = MakeSlice(multi.pods[Local(k).c.name])]
     IN Stepped(k, Onward(l, AfterList(l.nodes, l.s, l.c), Call("List", "Pod", "", "OK")),
                multi.obj, multi.cluster)

\* r.Status().Update(ctx, &redpandaCluster) after the assignment of the
\* node list (which = "nodes") or of the ready count (which = "replicas")
MultiUpdateStatus(k, which) ==
  /\ multi.phase = "two"
  /\ Local(k).pc = IF which = "nodes" THEN "updateStatusNodes"
                                      ELSE "updateStatusReplicas"
  /\ LET l == Local(k)
         c == IF which = "nodes" THEN [l.c EXCEPT !.nodes = l.nodes]
                                 ELSE [l.c EXCEPT !.statusReplicas = l.s.ready]
         e == IF multi.cluster[c.name].exists THEN "OK" ELSE "NotFound"
         call == Call("StatusUpdate", "Cluster", c.name, e)
     IN IF e = "OK"
          THEN Stepped(k,
                 Onward([l EXCEPT !.c = c],
                        IF which = "nodes" THEN AfterNodes(l.s, c) ELSE "return",
                        call),
                 multi.obj,
                 [multi.cluster EXCEPT ![c.name].nodes = c.nodes.elems,
                                       ![c.name].ready = c.statusReplicas])
          ELSE Stepped(k, Failed([l EXCEPT !.c = c], e, call),
                       multi.obj, multi.cluster)

MultiNext ==
  \/ \E k \in Keys : MultiGetCluster(k)
  \/ \E k \in Keys, kind \in Kinds : MultiGetChild(k, kind)
  \/ \E k \in Keys, kind \in Kinds : MultiCreateChild(k, kind)
  \/ \E k \in Keys : MultiUpdateStatefulSet(k)
  \/ \E k \in Keys : MultiListPods(k)
  \/ \E k \in Keys, which \in {"nodes", "replicas"} : MultiUpdateStatus(k, which)

\* one invocation for each of two Clusters, their calls interleaved
MultiSpec == MultiInit /\ [][MultiNext]_vars

\* what one invocation for k alone leaves of the Cluster k and of its child of
\* a kind, from the store st
AloneCluster(k, st) ==
  LET set == st.obj["StatefulSet"][k] IN
  IF set.exists
    THEN [st.cluster[k] EXCEPT !.nodes = st.pods[k], !.ready = set.ready]
    ELSE st.cluster[k]
AloneChild(kind, k, st) ==
  LET was == st.obj[kind][ChildName(kind, k)] IN
  IF ~was.exists THEN ChildOf(kind, k)
  ELSE IF kind = "StatefulSet" THEN [was EXCEPT !.replicas = st.cluster[k].replicas]
  ELSE was

\* C18: of two invocations for two Clusters with their calls interleaved in
\* any order, each has written, by create, update or status write, only objects
\* named for its own Cluster; every child in the store is owned by the
\* Cluster it is named for; and when both have returned, each Cluster, each
\* child and each returned value is what the invocation for that Cluster
\* alone leaves from the store they started from, and nothing else is stored.
C18_Isolation ==
  multi.phase = "two" =>
    /\ \A k \in Keys : \A i \in DOMAIN Local(k).calls :
         LET call == Local(k).calls[i] IN
         (call.op \in {"Create", "Update", "StatusUpdate"} /\ call.res = "OK")
           => call.name = ChildName(call.kind, k)
    /\ \A kind \in Kinds : \A n \in ObjectNames :
         multi.obj[kind][n].exists
           => /\ multi.obj[kind][n].owner \in Keys
              /\ multi.obj[kind][n].name = n
              /\ n = ChildName(kind, multi.obj[kind][n].owner)
    /\ (\A k \in Keys : Local(k).pc = "done")
         => /\ \A k \in Keys :
                 /\ multi.cluster[k] = AloneCluster(k, multi.start)
                 /\ Local(k).result =
                      IF multi.start.obj["StatefulSet"][k].exists THEN "OK"
                                                                  ELSE "Invalid"
            /\ \A kind \in Kinds : \A n \in ObjectNames :
                 multi.obj[kind][n] =
                   IF \E k \in Keys : n = ChildName(kind, k)
                     THEN AloneChild(kind, CHOOSE k \in Keys : n = ChildName(kind, k),
                                     multi.start)
                     ELSE Absent(kind)

\* C18 happens: both invocations have returned after each took steps while
\* the other was under way, one has created its ConfigMap and the other has
\* updated its StatefulSet and written its status
C18_Witness ==
  /\ multi.phase = "two"
  /\ \A k \in Keys : Local(k).pc = "done"
  /\ multi.overlap
  /\ \E i \in DOMAIN Local(Name).calls :
       Local(Name).calls[i] = Call("Create", "ConfigMap", Name \o baseSuffix, "OK")
  /\ \E i \in DOMAIN Local(Name \o baseSuffix).calls :
       Local(Name \o baseSuffix).calls[i].op = "StatusUpdate"
  /\ multi.cluster[Name \o baseSuffix].nodes # <<>>


(* --------------------- the node set in hand ----------------------------- *)
\* the steps that read or write Reconcile's sts variable
UsesNodeSet == {"updateStatefulSet", "listPods", "updateStatusNodes", "updateStatusReplicas"}

\* C21: at the replica-convergence step and at the status steps the sts
\* variable holds the Cluster's StatefulSet, under the Cluster's name and
\* namespace, and every StatefulSet update call names that object, never
\* an empty one.
C21_NodeSetInHand ==
  /\ pc \in UsesNodeSet => sts.name = Name /\ sts.namespace = Namespace
  /\ \A i \in CallIdx : IsCall(i, "Update", "StatefulSet") => calls[i].name = Name


(* --------------------- ports across the synthesizers -------------------- *)
\* C22: for every Cluster spec, the kafka port unset included, the port and
\* the target port of the Service and the kafka port declared on the redpanda
\* container both equal the kafka listen port of the generated configuration.
C22_PortAgreement ==
  synth.phase \in {"built", "applied"} =>
    /\ synth.service.port = synth.cfg.kafkaApi.port
    /\ synth.service.targetPort = synth.cfg.kafkaApi.port
    /\ synth.containers.kafka = synth.cfg.kafkaApi.port
====
